---- MODULE Spec2Model ----
(***************************************************************************)
(* Asynchronous forecast request / polling protocol.                       *)
(*                                                                         *)
(* Client side: the MapView component (frontend/src/components/MapView.jsx)*)
(* submits a forecast request, then polls forecast/check-forecast-request  *)
(* immediately and every 5 s through a setInterval timer whose id is kept  *)
(* in pollingIntervalRef.                                                  *)
(* Gateway side: the express routes request-forecast (with its zod schema) *)
(* and check-forecast-request, their controllers, and the downstream jobs. *)
(*                                                                         *)
(* Time is counted in half polling intervals and kept relative: a timer    *)
(* knows how long until it fires, a request how long until axios times it  *)
(* out.  JavaScript is single threaded: every action below is one          *)
(* run-to-completion task (a UI event, a timer callback, or the            *)
(* continuation of an await).                                              *)
(***************************************************************************)
EXTENDS Integers, Sequences, FiniteSets, TLC

\* ---------------------------------------------------------------- bounds
MaxSubmits == 2
MaxChecks == 3
MaxPoints == 2

\* ------------------------------------------------------ program constants
PollIntervalMs == 5000
TimeoutMs == 10000
\* Time is counted in half polling intervals.
TickMs == PollIntervalMs \div 2
PollInterval == PollIntervalMs \div TickMs
Timeout == TimeoutMs \div TickMs

\* Job handles are opaque; they are modelled as positive integers, and 0
\* stands for a field that is absent (undefined).  FirstHandle is the mock
\* controller's process id.
FirstHandle == 12345
RequestIds == {FirstHandle, FirstHandle + 1}

\* What the awaited api.post of a status check can settle with: an HTTP
\* status (axios resolves on 2xx and rejects on everything else), or a
\* rejection without a response.
CheckOutcomes == {200, 202, 204, 500, 0}
NetworkError == 0

\* axios' default validateStatus: the promise resolves iff 200 <= status < 300
Resolves(status) == status >= 200 /\ status < 300


VARIABLES
  mounted,             \* the MapView component is mounted
  marker,              \* useState marker: <<lat, lng>>, or <<>> for null
  error,               \* useState error
  forecastData,        \* useState forecastData: the handle the data is for, 0 for null
  forecastLoading,     \* useState forecastLoading
  pollingStatus,       \* useState pollingStatus
  showForecast,        \* useState showForecast
  pollingIntervalRef,  \* pollingIntervalRef.current: a timer id, 0 for null
  timers,              \* live setInterval timers
  submits,             \* handleRequestForecast calls suspended at their await
  checks,              \* checkForecastStatus calls suspended at their await
  sessions,            \* one record per startPolling call (history)
  nSubmits,            \* number of forecast requests submitted so far
  nChecks,             \* number of status checks issued so far
  gwBody,              \* gateway: body of the request handled last
  gwResp,              \* gateway: response sent for it
  gwDownstream,        \* gateway: downstream calls made while handling it
  gwAnswer,            \* gateway: what the downstream service answered
  jobs,                \* downstream service: the state of the job of each handle
  gwChecked,           \* gateway: per requestId, the last check-forecast-request response
  gwBuilt              \* gateway: the last createForecastResponse call and its result

uiVars == <<error, forecastData, forecastLoading, pollingStatus, showForecast>>
clientVars == <<mounted, marker, uiVars, pollingIntervalRef, timers, submits,
                checks, sessions, nSubmits, nChecks>>
gwCheckVars == <<jobs, gwChecked, gwBuilt>>
gwVars == <<gwBody, gwResp, gwDownstream, gwAnswer, gwCheckVars>>
vars == <<clientVars, gwVars>>

\* ------------------------------------------------------------ React state
\* A state setter of an unmounted component changes nothing that is shown.
SetState(old, new) == IF mounted THEN new ELSE old

\* ------------------------------------------------------------ stopPolling
\* MapView.jsx 67-73: clears the interval the ref points to, if any.
stopPollingTimers(ts, ref) == IF ref # 0 THEN {t \in ts : t.id # ref} ELSE ts
stopPollingRef(ref) == 0

\* ----------------------------------------------------- checkForecastStatus
\* MapView.jsx 76-80, up to the await: one POST check-forecast-request is
\* issued for requestId; the call then waits for the response.
\* The request is settled within the timeout of the axios instance
\* (unnamed/part_000 line 8).
IssueCheck(chk, s) == chk \cup {[sess |-> s, left |-> Timeout]}

\* The session a startPolling call creates: its handle, whether it has been
\* cancelled (stopPolling ran for it: at unmount, or in the handler of its own
\* terminal result), and the terminal state it has shown.
NewSession(requestId) == [rid |-> requestId, stopped |-> FALSE, done |-> "no"]

\* A setInterval timer: its id, the requestId its callback closes over, the
\* time left until it fires; and, for as long as it lives, how many status
\* checks its session has issued and the time since the last one.
NewTimer(s, requestId) ==
  [id |-> s, requestId |-> requestId, wait |-> PollInterval,
   nChecks |-> 1, age |-> 0]

\* startPolling as it would be without the "poll immediately" call: the first
\* status check would wait for the first interval tick.
startPolling_NoImmediateCheck(requestId) ==
  LET s == Len(sessions) + 1 IN
  /\ pollingStatus' = SetState(pollingStatus, "Checking forecast status...")
  /\ timers' = timers \cup {[NewTimer(s, requestId) EXCEPT !.nChecks = 0]}
  /\ pollingIntervalRef' = s
  /\ sessions' = Append(sessions, NewSession(requestId))
  /\ UNCHANGED <<checks, nChecks>>

\* ------------------------------------------------------------ startPolling
\* MapView.jsx 112-124: status text, one check at once, then a fresh
\* interval timer whose id overwrites pollingIntervalRef.current.
startPolling(requestId) ==
  LET s == Len(sessions) + 1 IN
  /\ nChecks < MaxChecks
  /\ nChecks' = nChecks + 1
  /\ pollingStatus' = SetState(pollingStatus, "Checking forecast status...")
  /\ checks' = IssueCheck(checks, s)
  /\ timers' = timers \cup {NewTimer(s, requestId)}
  /\ pollingIntervalRef' = s
  /\ sessions' = Append(sessions, NewSession(requestId))

\* ------------------------------------------------------------ UI events
\* JSON values of a request body: a number, a string, null, or a field that
\* is absent.
Num(n) == [t |-> "num", n |-> n, s |-> ""]
Str(x) == [t |-> "str", n |-> 0, s |-> x]
Null == [t |-> "null", n |-> 0, s |-> ""]
Undefined == [t |-> "undefined", n |-> 0, s |-> ""]

\* Where a click can land, in whole degrees: inside the map's bounds, or on
\* the copy of the world west of the antimeridian that the viewport shows at
\* low zoom (Leaflet does not wrap the longitude of a click).
HomePoint == [lat |-> 54, lng |-> -105]
ClickPoints == {HomePoint, [lat |-> 54, lng |-> -181]}

\* The Date objects BotLeft hands to onRequestForecast (it passes no falsy
\* date, unnamed/part_001 line 51): the date picked in the calendar, or the
\* Invalid Date that Calendar22.handleTimeChange makes of an emptied time
\* field (setHours with minutes undefined).
ValidDate == [valid |-> TRUE, iso |-> "2025-10-06T15:00:00Z"]
InvalidDate == [valid |-> FALSE, iso |-> ""]
PickedDates == {ValidDate, InvalidDate}

\* JSON.stringify of a Date in the request body: Date.prototype.toJSON gives
\* the ISO string, and null for an Invalid Date.
DateToJSON(date) == IF date.valid THEN Str(date.iso) ELSE Null

NoMarker == <<>>

\* MapView.jsx 34-39 (ClickHandler): a click on the map selects a location.
MapClick(latlng) ==
  /\ mounted /\ marker # <<latlng.lat, latlng.lng>>
  /\ marker' = <<latlng.lat, latlng.lng>>
  /\ UNCHANGED <<mounted, uiVars, pollingIntervalRef, timers, submits,
                 checks, sessions, nSubmits, nChecks, gwVars>>

\* MapView.jsx 127-147: handleRequestForecast up to its await.  Nothing here
\* touches pollingIntervalRef, the timers or the checks in flight.
handleRequestForecast(date) ==
  /\ mounted
  /\ IF marker = NoMarker
       THEN /\ error' = "Please select a location first."
            /\ UNCHANGED <<forecastData, forecastLoading, pollingStatus,
                           submits, nSubmits>>
       ELSE /\ nSubmits < MaxSubmits
            /\ forecastLoading' = FALSE
            /\ forecastData' = 0
            /\ error' = "null"
            /\ pollingStatus' = "Requesting forecast..."
            /\ submits' = submits \cup
                 {[id |-> nSubmits + 1, left |-> Timeout,
                   body |-> [long |-> Num(marker[2]), lat |-> Num(marker[1]),
                             date |-> DateToJSON(date)]]}
            /\ nSubmits' = nSubmits + 1
  /\ UNCHANGED <<mounted, marker, showForecast, pollingIntervalRef,
                 timers, checks, sessions, nChecks, gwVars>>

\* What the awaited POST request-forecast can settle with: a status and the
\* requestId field of the body (0 when the body has none).  The server hands
\* out a fresh handle for every submission.
SubmitOutcomes(sub) ==
  {[status |-> 202, requestId |-> FirstHandle + sub.id - 1],
   [status |-> 202, requestId |-> 0],
   [status |-> 500, requestId |-> 0],
   [status |-> NetworkError, requestId |-> 0]}

\* MapView.jsx 155: the client starts polling iff the awaited POST resolved and
\* res.data.requestId is truthy.
HasRequestId(o) == Resolves(o.status) /\ o.requestId # 0

\* handleRequestForecast as it would be if it started polling after every
\* response, with or without a requestId in it.
SubmitResponse_PollsWithoutHandle(sub, o) ==
  /\ sub \in submits
  /\ submits' = submits \ {sub}
  /\ forecastLoading' = SetState(forecastLoading, FALSE)
  /\ IF Resolves(o.status)
       THEN /\ startPolling(o.requestId)
            /\ UNCHANGED error
       ELSE /\ error' = SetState(error, "Failed to request forecast data.")
            /\ UNCHANGED <<pollingStatus, checks, timers, pollingIntervalRef,
                           sessions, nChecks>>
  /\ UNCHANGED <<mounted, marker, forecastData, showForecast, nSubmits,
                 gwVars>>

\* handleRequestForecast as it would be if its catch block posted the request
\* once more.
SubmitResponse_RetriesOnFailure(sub, o) ==
  /\ sub \in submits
  /\ forecastLoading' = SetState(forecastLoading, FALSE)
  /\ IF HasRequestId(o)
       THEN /\ startPolling(o.requestId)
            /\ submits' = submits \ {sub}
            /\ UNCHANGED error
       ELSE /\ error' = SetState(error,
                   IF Resolves(o.status) THEN "No request ID received"
                   ELSE "Failed to request forecast data.")
            /\ submits' = IF Resolves(o.status) THEN submits \ {sub}
                          ELSE (submits \ {sub}) \cup {[sub EXCEPT !.left = Timeout]}
            /\ UNCHANGED <<pollingStatus, checks, timers, pollingIntervalRef,
                           sessions, nChecks>>
  /\ UNCHANGED <<mounted, marker, forecastData, showForecast, nSubmits,
                 gwVars>>

\* MapView.jsx 149-165: handleRequestForecast after its await.
SubmitResponse(sub, o) ==
  /\ sub \in submits
  /\ submits' = submits \ {sub}
  /\ forecastLoading' = SetState(forecastLoading, FALSE)
  /\ IF HasRequestId(o)
       THEN /\ startPolling(o.requestId)
            /\ UNCHANGED error
       ELSE /\ error' = SetState(error,
                   IF Resolves(o.status) THEN "No request ID received"
                   ELSE "Failed to request forecast data.")
            /\ UNCHANGED <<pollingStatus, checks, timers, pollingIntervalRef,
                           sessions, nChecks>>
  /\ UNCHANGED <<mounted, marker, forecastData, showForecast, nSubmits,
                 gwVars>>

\* MapView.jsx 121-123: the interval callback runs checkForecastStatus
\* (requestId) every 5000 ms for as long as the timer is not cleared.
IntervalTick(t) ==
  /\ t \in timers
  /\ t.wait = 0
  /\ nChecks < MaxChecks
  /\ nChecks' = nChecks + 1
  /\ checks' = IssueCheck(checks, t.id)
  /\ timers' = (timers \ {t}) \cup
        {[t EXCEPT !.wait = PollInterval, !.nChecks = @ + 1, !.age = 0]}
  /\ UNCHANGED <<mounted, marker, uiVars, pollingIntervalRef, submits,
                 sessions, nSubmits, gwVars>>

\* MapView.jsx 82-108: checkForecastStatus after its await.
CheckResponse(c, o) ==
  /\ c \in checks
  /\ checks' = checks \ {c}
  /\ IF o = 200
       THEN /\ timers' = stopPollingTimers(timers, pollingIntervalRef)
            /\ pollingIntervalRef' = stopPollingRef(pollingIntervalRef)
            /\ forecastLoading' = SetState(forecastLoading, TRUE)
            /\ pollingStatus' = SetState(pollingStatus, "Forecast data received!")
            /\ forecastData' = SetState(forecastData, sessions[c.sess].rid)
            /\ showForecast' = SetState(showForecast, TRUE)
            /\ sessions' = [sessions EXCEPT ![c.sess].stopped = TRUE,
                              ![c.sess].done = SetState(@, "success")]
            /\ UNCHANGED error
       ELSE IF o = 202
       THEN /\ pollingStatus' = SetState(pollingStatus, "Processing forecast...")
            /\ UNCHANGED <<timers, pollingIntervalRef, forecastLoading,
                           forecastData, showForecast, sessions, error>>
       ELSE IF Resolves(o)
       THEN UNCHANGED <<timers, pollingIntervalRef, forecastLoading,
                        pollingStatus, forecastData, showForecast, sessions,
                        error>>
       ELSE /\ timers' = stopPollingTimers(timers, pollingIntervalRef)
            /\ pollingIntervalRef' = stopPollingRef(pollingIntervalRef)
            /\ error' = SetState(error, "Failed to check forecast status")
            /\ forecastLoading' = SetState(forecastLoading, FALSE)
            /\ sessions' = [sessions EXCEPT ![c.sess].stopped = TRUE,
                              ![c.sess].done = SetState(@, "failure")]
            /\ UNCHANGED <<pollingStatus, forecastData, showForecast>>
  /\ UNCHANGED <<mounted, marker, submits, nSubmits, nChecks, gwVars>>

\* MapView.jsx 171-175: the effect cleanup at unmount calls stopPolling.
Unmount ==
  /\ mounted
  /\ mounted' = FALSE
  /\ timers' = stopPollingTimers(timers, pollingIntervalRef)
  /\ pollingIntervalRef' = stopPollingRef(pollingIntervalRef)
  /\ sessions' = [i \in 1..Len(sessions) |-> [sessions[i] EXCEPT !.stopped = TRUE]]
  /\ UNCHANGED <<marker, uiVars, submits, checks, nSubmits, nChecks, gwVars>>

\* TickMs milliseconds pass.  A timer that is due fires before time moves on,
\* and a request is settled (at the latest by axios' timeout) before its
\* time is up.  Time with nothing pending is not counted.
Elapse(r) == [r EXCEPT !.left = @ - 1]

Tick ==
  /\ timers \cup submits \cup checks # {}
  /\ \A t \in timers : t.wait > 0
  /\ \A r \in submits \cup checks : r.left > 0
  /\ timers' = {[t EXCEPT !.wait = @ - 1, !.age = @ + 1] : t \in timers}
  /\ submits' = {Elapse(r) : r \in submits}
  /\ checks' = {Elapse(r) : r \in checks}
  /\ UNCHANGED <<mounted, marker, uiVars, pollingIntervalRef, sessions,
                 nSubmits, nChecks, gwVars>>

\* ================================================================ gateway
LongValues == {Num(-181), Num(-180), Num(-105), Num(180), Num(181), Str("abc"), Undefined}
LatValues == {Num(-91), Num(-90), Num(54), Num(90), Num(91), Str("abc"), Undefined}
DateValues == {Str("2025-10-06T15:00:00Z"), Str("tomorrow-ish"), Null, Undefined}
Bodies == [long : LongValues, lat : LatValues, date : DateValues]

NoBody == [long |-> Undefined, lat |-> Undefined, date |-> Undefined]
NoResponse == [status |-> 0, requestId |-> 0, task_id |-> 0, error |-> "undefined"]

\* The strings Date can parse, among those of DateValues.
ParseableDates == {"2025-10-06T15:00:00Z"}

\* new Date(v) is a valid date: a parseable string, a number, or null (new
\* Date(null) is the epoch); new Date(undefined) is Invalid Date.
DateIsValid(v) ==
  \/ v.t = "str" /\ v.s \in ParseableDates
  \/ v.t = "num"
  \/ v.t = "null"

\* z.number(): the value is a number; no coercion, no range.
ZNumber(v) == v.t = "num"

\* z.coerce.date(): new Date(value) must be a valid date.
ZCoerceDate(v) == DateIsValid(v)

\* unnamed/part_006 3-7: the schema of the request-forecast body.
requestForecastRequest(body) ==
  /\ ZNumber(body.long)
  /\ ZNumber(body.lat)
  /\ ZCoerceDate(body.date)

\* The validation middleware of the route (unnamed/part_009 line 8): a body
\* the schema rejects is answered 400 and the controller is not run.
validateData(body) == requestForecastRequest(body)

ValidationError ==
  [status |-> 400, requestId |-> 0, task_id |-> 0, error |-> "Invalid data"]

\* What the downstream prediction service can do with POST /frontend/submit:
\* answer with a task_id, answer without one (0), or fail (unreachable,
\* non-2xx, or slower than the timeout of backend/src/config/axios.js).
\* A failed call rejects with an error that describes the failure.
DownstreamErrors ==
  {"timeout of 5000ms exceeded", "connect ECONNREFUSED master-api:9000",
   "Request failed with status code 500"}

DownstreamAnswers ==
  [ok : {TRUE}, task_id : RequestIds \cup {0}, detail : {""}]
    \cup [ok : {FALSE}, task_id : {0}, detail : DownstreamErrors]

NoAnswer == [ok |-> FALSE, task_id |-> 0, detail |-> ""]

\* The downstream service keeps one job per handle it has given out: a job is
\* created "processing" by the submission it answers with a task_id, and is
\* "complete" once the service has finished it.
JobStates == {"none", "processing", "complete"}
JobSubmitted(js, answer) ==
  IF answer.ok /\ answer.task_id # 0 /\ js[answer.task_id] = "none"
  THEN [js EXCEPT ![answer.task_id] = "processing"]
  ELSE js

DownstreamCompletes(requestId) ==
  /\ jobs[requestId] = "processing"
  /\ jobs' = [jobs EXCEPT ![requestId] = "complete"]
  /\ UNCHANGED <<clientVars, gwBody, gwResp, gwDownstream, gwAnswer,
                 gwChecked, gwBuilt>>

\* requestForecast as it would be if its catch block passed the error of the
\* downstream call on to the caller.
requestForecast_ForwardsError(body, answer) ==
  /\ gwBody' = body
  /\ gwDownstream' = IF validateData(body) THEN 1 ELSE 0
  /\ gwAnswer' = IF validateData(body) THEN answer ELSE NoAnswer
  /\ gwResp' =
       IF ~validateData(body) THEN ValidationError
       ELSE IF ~answer.ok
       THEN [status |-> 500, requestId |-> 0, task_id |-> 0,
             error |-> answer.detail]
       ELSE [status |-> 202, requestId |-> 0, task_id |-> answer.task_id,
             error |-> "undefined"]
  /\ jobs' = IF validateData(body) THEN JobSubmitted(jobs, answer) ELSE jobs
  /\ UNCHANGED <<clientVars, gwChecked, gwBuilt>>

\* unnamed/part_008 2-15: the controller that forwards to the downstream
\* service; the route runs it after validateData.
requestForecast(body, answer) ==
  /\ gwBody' = body
  /\ IF ~validateData(body)
       THEN /\ gwResp' = ValidationError
            /\ gwDownstream' = 0
            /\ gwAnswer' = NoAnswer
       ELSE /\ gwDownstream' = 1
            /\ gwAnswer' = answer
            /\ gwResp' =
                 IF ~answer.ok
                 THEN [status |-> 500, requestId |-> 0, task_id |-> 0,
                       error |-> "Internal error"]
                 ELSE [status |-> 202, requestId |-> 0,
                       task_id |-> answer.task_id, error |-> "undefined"]
  /\ jobs' = IF validateData(body) THEN JobSubmitted(jobs, answer) ELSE jobs
  /\ UNCHANGED <<clientVars, gwChecked, gwBuilt>>

\* backend/src/controllers/forcast.controller.js 96-100: the controller that
\* answers with a fixed process id and calls nothing.
requestForecastMockResponse(body) ==
  IF ~validateData(body)
  THEN ValidationError
  ELSE [status |-> 202, requestId |-> FirstHandle, task_id |-> 0,
        error |-> "undefined"]

requestForecastMock(body) ==
  /\ gwBody' = body
  /\ gwDownstream' = 0
  /\ gwAnswer' = NoAnswer
  /\ gwResp' = requestForecastMockResponse(body)
  /\ UNCHANGED <<clientVars, gwCheckVars>>

\* ------------------------------------------------- check-forecast-request
\* unnamed/part_008 25-38: the data checkForecastRequest answers with.
MockCurrent == [aqi |-> Num(82)]
MockForecastList ==
  <<[datetime |-> Str("2025-10-06T15:00:00Z"), aqi |-> Num(90)],
    [datetime |-> Str("2025-10-07T15:00:00Z"), aqi |-> Num(86)]>>

\* unnamed/part_008 51-61: current_conditions takes current.aqi, and forecast
\* is forecastList.map(item => ({datetime: item.datetime, aqi: item.aqi})):
\* one output point per input item, a field the item lacks being undefined.
createForecastResponse(current, forecastList) ==
  [current_conditions |-> [aqi |-> current.aqi],
   forecast |-> [i \in 1..Len(forecastList) |->
                   [datetime |-> forecastList[i].datetime,
                    aqi |-> forecastList[i].aqi]]]

NoResult == [current_conditions |-> [aqi |-> Undefined], forecast |-> <<>>]
NoBuilt == [current |-> [aqi |-> Undefined], forecastList |-> <<>>,
            response |-> NoResult]
NoCheck == [status |-> 0, message |-> "undefined", result |-> NoResult]

\* unnamed/part_008 18: const finished = true.
finished == TRUE

\* unnamed/part_008 16-48: the requestId of the body is not read and no
\* downstream call is made; the answer depends on finished alone.
checkForecastResponse ==
  IF finished
  THEN [status |-> 200, message |-> "undefined",
        result |-> createForecastResponse(MockCurrent, MockForecastList)]
  ELSE [status |-> 202, message |-> "Forecast is still being processed",
        result |-> NoResult]

checkForecastRequest(requestId) ==
  /\ gwChecked' = [gwChecked EXCEPT ![requestId] = checkForecastResponse]
  /\ IF finished
       THEN gwBuilt' = [current |-> MockCurrent,
                       forecastList |-> MockForecastList,
                       response |-> checkForecastResponse.result]
       ELSE UNCHANGED gwBuilt
  /\ UNCHANGED <<clientVars, gwBody, gwResp, gwDownstream, gwAnswer, jobs>>

NextGateway ==
  \/ \E body \in Bodies : \E a \in DownstreamAnswers : requestForecast(body, a)
  \/ \E body \in Bodies : requestForecastMock(body)

\* The arguments createForecastResponse can be called with: a current
\* reading and up to MaxPoints forecast items, each with or without its aqi
\* and its datetime.
Currents == {[aqi |-> Num(82)], [aqi |-> Undefined]}
ForecastItems ==
  [datetime : {Str("2025-10-06T15:00:00Z"), Str("2025-10-07T15:00:00Z"),
               Undefined},
   aqi : {Num(90), Num(86), Undefined}]
ForecastLists == UNION {[1..n -> ForecastItems] : n \in 0..MaxPoints}

\* A call of createForecastResponse and what it returns.
callCreateForecastResponse(current, forecastList) ==
  /\ gwBuilt' = [current |-> current, forecastList |-> forecastList,
                 response |-> createForecastResponse(current, forecastList)]
  /\ UNCHANGED <<clientVars, gwBody, gwResp, gwDownstream, gwAnswer, jobs,
                 gwChecked>>

NextForecast ==
  \E current \in Currents : \E forecastList \in ForecastLists :
    callCreateForecastResponse(current, forecastList)

\* The body of the spec's end-to-end scenario, with the coordinates as whole
\* numbers.
ScenarioBody ==
  [long |-> Num(-105), lat |-> Num(54), date |-> Str("2025-10-06T15:00:00Z")]

\* Submissions of the scenario body, the downstream jobs they create, and
\* the status checks for them.
NextStatus ==
  \/ \E a \in DownstreamAnswers : requestForecast(ScenarioBody, a)
  \/ \E requestId \in RequestIds : DownstreamCompletes(requestId)
  \/ \E requestId \in RequestIds : checkForecastRequest(requestId)


Init ==
  /\ mounted = TRUE
  /\ marker = NoMarker
  /\ error = "null"
  /\ forecastData = 0
  /\ forecastLoading = FALSE
  /\ pollingStatus = ""
  /\ showForecast = FALSE
  /\ pollingIntervalRef = 0
  /\ timers = {}
  /\ submits = {}
  /\ checks = {}
  /\ sessions = <<>>
  /\ nSubmits = 0
  /\ nChecks = 0
  /\ gwBody = NoBody
  /\ gwResp = NoResponse
  /\ gwDownstream = 0
  /\ gwAnswer = NoAnswer
  /\ jobs = [requestId \in RequestIds |-> "none"]
  /\ gwChecked = [requestId \in RequestIds |-> NoCheck]
  /\ gwBuilt = NoBuilt

\* The polling protocol, for requests of one location and date.
Next ==
  \/ MapClick(HomePoint)
  \/ handleRequestForecast(ValidDate)
  \/ \E sub \in submits : \E o \in SubmitOutcomes(sub) : SubmitResponse(sub, o)
  \/ \E t \in timers : IntervalTick(t)
  \/ \E c \in checks : \E o \in CheckOutcomes : CheckResponse(c, o)
  \/ Unmount
  \/ Tick

Spec == Init /\ [][Next]_vars

\* The same component, for every location the map can be clicked at and every
\* date the date picker can hand over.
NextInput ==
  \/ \E latlng \in ClickPoints : MapClick(latlng)
  \/ \E date \in PickedDates : handleRequestForecast(date)
  \/ \E sub \in submits : \E o \in SubmitOutcomes(sub) : SubmitResponse(sub, o)
  \/ \E t \in timers : IntervalTick(t)
  \/ \E c \in checks : \E o \in CheckOutcomes : CheckResponse(c, o)
  \/ Unmount
  \/ Tick

SpecInput == Init /\ [][NextInput]_vars

\* What the client's awaited post settles with when the gateway has answered
\* with response r.
GatewayOutcome(r) == [status |-> r.status, requestId |-> r.requestId]

\* The component against the gateway of
\* backend/src/controllers/forcast.controller.js: every request is answered,
\* with what the controllers respond.
NextEndToEnd ==
  \/ MapClick(HomePoint)
  \/ handleRequestForecast(ValidDate)
  \/ \E sub \in submits :
       SubmitResponse(sub, GatewayOutcome(requestForecastMockResponse(sub.body)))
  \/ \E t \in timers : IntervalTick(t)
  \/ \E c \in checks : CheckResponse(c, checkForecastResponse.status)
  \/ Unmount
  \/ Tick

SpecEndToEnd == Init /\ [][NextEndToEnd]_vars

\* The gateway alone, serving request bodies of any client.
SpecGateway == Init /\ [][NextGateway]_vars

\* The gateway's submission and status operations and the downstream jobs.
SpecStatus == Init /\ [][NextStatus]_vars

\* createForecastResponse on its own.
SpecForecast == Init /\ [][NextForecast]_vars

\* ================================================================= claims
SessionIds == 1..Len(sessions)

\* The sessions that have a status check scheduled (a live interval timer) or
\* in flight.
ActiveSessions == {t.id : t \in timers} \cup {c.sess : c \in checks}

\* C1: once a polling session has been cancelled (stopPolling ran at unmount
\* or in the handler of its own terminal result), no further status check is
\* issued for it.
C1_NoCheckAfterCancel ==
  [][\A t \in timers : sessions[t.id].stopped => ~IntervalTick(t)]_vars

\* C2: at every moment at most one job handle (requestId) has scheduled or
\* in-flight status checks.
C2_AtMostOneActiveHandle ==
  Cardinality({sessions[i].rid : i \in ActiveSessions}) <= 1

\* C3: within one session at most one status check is outstanding at any time.
C3_SingleFlight ==
  \A i \in SessionIds : Cardinality({c \in checks : c.sess = i}) <= 1

\* C4: the response of a status check of a cancelled session sets neither the
\* forecast data, nor the status text, nor the error, and does not move the
\* session to Done.
C4_NoResultAfterCancel ==
  [][\A c \in checks :
       (sessions[c.sess].stopped /\ c \notin checks')
         => /\ forecastData' = forecastData
            /\ pollingStatus' = pollingStatus
            /\ error' = error
            /\ sessions'[c.sess].done = sessions[c.sess].done]_vars

\* C5: a session's first status check is issued in the very step that starts
\* it (no delay after the handle is received), every later check is issued
\* exactly one polling interval after the session's previous check, and while
\* the session's timer is live no interval passes without a check.
C5_ImmediateThenFixedInterval ==
  [][/\ \A t \in timers' : t.age <= PollInterval
     /\ \A i \in 1..Len(sessions') :
          i > Len(sessions)
            => /\ [sess |-> i, left |-> Timeout] \in checks'
               /\ \E t \in timers' : t.id = i /\ t.age = 0
     /\ nChecks' # nChecks
          => \/ Len(sessions') > Len(sessions)
             \/ \E t \in timers :
                  /\ t.age = PollInterval
                  /\ [sess |-> t.id, left |-> Timeout] \in checks' \ checks
                  /\ \E u \in timers' : u.id = t.id /\ u.age = 0]_vars

\* C5 witness: a session has issued its immediate check and two interval
\* checks.
C5_Witness == \E t \in timers : t.nChecks >= 3

\* C6: processing a 200 response of a session stops its scheduling (its timer
\* is no longer live) and exposes the response body as the forecast result;
\* a session that has shown Done(success) issues no further status check.
C6_ReadyStopsPolling ==
  [][/\ \A c \in checks :
          CheckResponse(c, 200)
            => /\ \A t \in timers' : t.id # c.sess
               /\ mounted => forecastData' = sessions[c.sess].rid
      /\ \A t \in timers :
          sessions[t.id].done = "success" => ~IntervalTick(t)]_vars

\* C7: processing a rejected status check (non-2xx response, timeout, network
\* error) of a session stops its scheduling and exposes a failure reason; a
\* session that has shown Done(failure) issues no further status check.
C7_FailureStopsPolling ==
  [][/\ \A c \in checks : \A o \in {500, NetworkError} :
          CheckResponse(c, o)
            => /\ \A t \in timers' : t.id # c.sess
               /\ mounted => error' = "Failed to check forecast status"
      /\ \A t \in timers :
          sessions[t.id].done = "failure" => ~IntervalTick(t)]_vars

\* C8: 202 keeps the session polling, 200 makes it Ready, and every other
\* response code ends polling with a failure.
C8_StatusFromCode ==
  [][\A c \in checks : \A o \in CheckOutcomes :
       CheckResponse(c, o)
         => IF o = 202
            THEN timers' = timers /\ pollingIntervalRef' = pollingIntervalRef
            ELSE IF o = 200
            THEN pollingIntervalRef' = 0
                 /\ (mounted => sessions'[c.sess].done = "success")
            ELSE pollingIntervalRef' = 0
                 /\ (mounted => sessions'[c.sess].done = "failure")]_vars

\* Validity of a request body as the data model states it: longitude in
\* [-180,180], latitude in [-90,90], date a string that parses.
SpecValid(body) ==
  /\ body.long.t = "num" /\ body.long.n >= -180 /\ body.long.n <= 180
  /\ body.lat.t = "num" /\ body.lat.n >= -90 /\ body.lat.n <= 90
  /\ body.date.t = "str" /\ body.date.s \in ParseableDates

\* C9: for a valid body that the downstream service answers with a handle,
\* the gateway responds 202 with that handle in the requestId field, where
\* the client reads it to start polling.
C9_ValidRequestGetsRequestId ==
  (gwDownstream = 1 /\ SpecValid(gwBody) /\ gwAnswer.ok /\ gwAnswer.task_id # 0)
    => /\ gwResp.status = 202
       /\ gwResp.requestId = gwAnswer.task_id
       /\ HasRequestId(gwResp)

\* C10: a body with an invalid longitude, latitude or date is answered 400
\* and no downstream call is made for it.
C10_InvalidRequestRejected ==
  (gwResp # NoResponse /\ ~SpecValid(gwBody))
    => gwResp.status = 400 /\ gwDownstream = 0

\* A ForecastResult: current_conditions with a numeric aqi, and forecast
\* points that each have a datetime and a numeric aqi.
IsForecastResult(r) ==
  /\ r.current_conditions.aqi.t = "num"
  /\ \A i \in 1..Len(r.forecast) :
       r.forecast[i].datetime.t = "str" /\ r.forecast[i].aqi.t = "num"

\* C11: a check-forecast-request for a requestId whose downstream job is
\* still processing is answered 202, and one that is answered 200 has a
\* complete downstream job and carries a ForecastResult.
C11_CheckFollowsJob ==
  [][\A requestId \in RequestIds :
       checkForecastRequest(requestId)
         => /\ jobs[requestId] = "processing"
                 => gwChecked'[requestId].status = 202
            /\ gwChecked'[requestId].status = 200
                 => /\ jobs[requestId] = "complete"
                    /\ IsForecastResult(gwChecked'[requestId].result)]_vars

\* C12: every check-forecast-request for a requestId whose job is pending is
\* answered 202, and once a check for a requestId has been answered 200
\* every later check for it is answered 200 with the same ForecastResult.
C12_CheckIdempotent ==
  [][\A requestId \in RequestIds :
       checkForecastRequest(requestId)
         => /\ jobs[requestId] = "processing"
                 => gwChecked'[requestId].status = 202
            /\ gwChecked[requestId].status = 200
                 => gwChecked'[requestId] = gwChecked[requestId]]_vars

\* The generic error response of the gateway.
InternalError ==
  [status |-> 500, requestId |-> 0, task_id |-> 0, error |-> "Internal error"]

\* C13: when the downstream submission call has failed or timed out, the
\* response is 500 with the generic error payload, which carries nothing of
\* the downstream error, and exactly one downstream call was made.
C13_DownstreamFailureIsGeneric ==
  (gwDownstream > 0 /\ ~gwAnswer.ok)
    => /\ gwResp = InternalError
       /\ gwResp.error \notin DownstreamErrors
       /\ gwDownstream = 1

\* C13 witness: the downstream call timed out and the caller got the 500.
C13_Witness ==
  /\ gwDownstream = 1
  /\ gwAnswer = [ok |-> FALSE, task_id |-> 0,
                 detail |-> "timeout of 5000ms exceeded"]
  /\ gwResp.status = 500

\* C14: when the submission is rejected (service unreachable, non-2xx
\* status) or its response has no requestId, the handler shows an error (as
\* long as the component is mounted) and starts no polling session: no
\* interval timer is created, no status check is issued, and
\* pollingIntervalRef is not touched.
C14_FailedSubmissionStartsNothing ==
  [][\A sub \in submits : \A o \in SubmitOutcomes(sub) :
       (SubmitResponse(sub, o) /\ (~Resolves(o.status) \/ o.requestId = 0))
         => /\ mounted => error' \in {"No request ID received",
                                     "Failed to request forecast data."}
            /\ timers' = timers
            /\ checks' = checks
            /\ nChecks' = nChecks
            /\ sessions' = sessions
            /\ pollingIntervalRef' = pollingIntervalRef]_vars

\* C14 witness: a submission has ended without a handle, its error is shown
\* and there is no session.
C14_Witness ==
  /\ nSubmits = 1 /\ submits = {}
  /\ error = "No request ID received"
  /\ sessions = <<>> /\ timers = {} /\ checks = {}

\* C15: a call of handleRequestForecast with a location selected issues
\* exactly one request; the continuation of a request, whatever its
\* outcome, only removes that request, and no other step issues one.
C15_OneRequestPerCall ==
  [][/\ \A date \in PickedDates :
          (handleRequestForecast(date) /\ marker # NoMarker)
            => /\ submits \subseteq submits'
               /\ Cardinality(submits' \ submits) = 1
               /\ nSubmits' = nSubmits + 1
     /\ \A sub \in submits : \A o \in SubmitOutcomes(sub) :
          SubmitResponse(sub, o)
            => submits' = submits \ {sub} /\ nSubmits' = nSubmits
     /\ (\A date \in PickedDates : ~handleRequestForecast(date))
          => /\ {sub.id : sub \in submits'} \subseteq {sub.id : sub \in submits}
             /\ nSubmits' = nSubmits]_vars

\* C15 witness: two calls were made, the second request was rejected, and no
\* request is in flight.
C15_Witness ==
  /\ nSubmits = 2 /\ submits = {}
  /\ error = "Failed to request forecast data."

\* Validity of the submission input as the data model states it: a location
\* is selected, longitude in [-180,180], latitude in [-90,90], and the date
\* is a valid one.
SpecValidInput(m, date) ==
  /\ m # NoMarker
  /\ m[2] >= -180 /\ m[2] <= 180
  /\ m[1] >= -90 /\ m[1] <= 90
  /\ date.valid

\* C16: a call of handleRequestForecast whose location or date is invalid
\* issues no request and shows an error.
C16_ClientValidatesInput ==
  [][\A date \in PickedDates :
       (handleRequestForecast(date) /\ ~SpecValidInput(marker, date))
         => /\ submits' = submits
            /\ nSubmits' = nSubmits
            /\ error' # "null"]_vars

\* C17: the response of a status check of a session that has not been
\* cancelled leaves the session polling, with its timer live, if it is 202,
\* and otherwise puts the session in Done and ends its timer; a session in
\* Done issues no further check.
C17_DoneIffNonPending ==
  [][/\ \A c \in checks : \A o \in CheckOutcomes :
          (CheckResponse(c, o) /\ mounted /\ ~sessions[c.sess].stopped)
            => IF o = 202
               THEN /\ sessions'[c.sess].done = "no"
                    /\ \E t \in timers' : t.id = c.sess
               ELSE /\ sessions'[c.sess].done # "no"
                    /\ \A t \in timers' : t.id # c.sess
     /\ \A t \in timers :
          sessions[t.id].done # "no" => ~IntervalTick(t)]_vars

\* A forecast item that has both mandatory fields.
IsCompletePoint(item) ==
  item.aqi.t # "undefined" /\ item.datetime.t # "undefined"

\* C19: the forecast sequence createForecastResponse returns consists of
\* the input items that have both aqi and datetime, in their input order;
\* items lacking either are left out.
C19_IncompletePointsDropped ==
  gwBuilt.response.forecast = SelectSeq(gwBuilt.forecastList, IsCompletePoint)

\* C20: at most one interval timer is live, pollingIntervalRef.current is
\* its id and is null exactly when there is none, and startPolling is not
\* called while the ref points to a live timer.
C20_TimerHandleInvariant ==
  [][/\ Cardinality(timers') <= 1
     /\ pollingIntervalRef' = 0 <=> timers' = {}
     /\ \A t \in timers' : t.id = pollingIntervalRef'
     /\ Len(sessions') > Len(sessions)
          => \A t \in timers : t.id # pollingIntervalRef]_vars

\* The datetimes of the model, in ascending order.
KnownDatetimes == <<"2025-10-06T15:00:00Z", "2025-10-07T15:00:00Z">>
DatetimeRank(v) ==
  CHOOSE i \in 1..Len(KnownDatetimes) : KnownDatetimes[i] = v.s
IsAscending(forecast) ==
  \A i \in 1..(Len(forecast) - 1) :
    DatetimeRank(forecast[i].datetime) < DatetimeRank(forecast[i + 1].datetime)

\* C18: end to end, the scenario request is answered with requestId 12345
\* and starts a session for it; the response of the session's first status
\* check is 202 and leaves it polling; the response of its second check is
\* 200 with current_conditions.aqi 82 and two forecast points in ascending
\* datetime order, and puts the session in Done(success).
C18_EndToEndScenario ==
  [][/\ \A sub \in submits :
          (/\ sub.body = ScenarioBody
           /\ SubmitResponse(sub,
                 GatewayOutcome(requestForecastMockResponse(sub.body))))
            => /\ requestForecastMockResponse(sub.body).requestId = FirstHandle
               /\ Len(sessions') = Len(sessions) + 1
               /\ sessions'[Len(sessions')].rid = FirstHandle
     /\ \A c \in checks : \A t \in timers :
          (/\ t.id = c.sess
           /\ mounted
           /\ Cardinality({d \in checks : d.sess = c.sess}) = 1
           /\ CheckResponse(c, checkForecastResponse.status))
            => /\ t.nChecks = 1
                    => /\ checkForecastResponse.status = 202
                       /\ timers' = timers
                       /\ sessions'[c.sess].done = "no"
               /\ t.nChecks = 2
                    => /\ checkForecastResponse.status = 200
                       /\ checkForecastResponse.result.current_conditions.aqi
                            = Num(82)
                       /\ Len(checkForecastResponse.result.forecast) = 2
                       /\ IsAscending(checkForecastResponse.result.forecast)
                       /\ sessions'[c.sess].done = "success"]_vars

\* The handle of the most recently submitted request (0 before the first
\* submission): the server gives submission number n the handle
\* FirstHandle + n - 1.
LatestHandle == IF nSubmits = 0 THEN 0 ELSE FirstHandle + nSubmits - 1

\* C21: the forecast data shown is that of the most recently submitted
\* request, and the response (or rejection) of a status check for the handle
\* of an earlier request sets neither forecastData, nor showForecast, nor
\* the error.
C21_DataOfLatestRequest ==
  [][/\ forecastData' \in
          {0, IF nSubmits' = 0 THEN 0 ELSE FirstHandle + nSubmits' - 1}
     /\ \A c \in checks : \A o \in CheckOutcomes :
          (CheckResponse(c, o) /\ sessions[c.sess].rid # LatestHandle)
            => /\ forecastData' = forecastData
               /\ showForecast' = showForecast
               /\ error' = error]_vars

====
